---------------------------- MODULE Spec2Model ----------------------------
(***************************************************************************)
(* The two QA tools of the site (the static validator validate.mjs and the *)
(* browser QA script) as state machines over their reporter counters, the  *)
(* console output, the process exit code and, for the browser script, the   *)
(* browser and its contexts.                                                *)
(***************************************************************************)
EXTENDS Integers, Sequences, FiniteSets, TLC

VARIABLES
    tool,       \* which script this run executes: "validator" or "prober"
    pc,         \* position of the script
    passed,     \* let passed
    failed,     \* let failed
    warnings,   \* let warnings
    out,        \* the console lines written by pass/fail/warn, in order
    printed,    \* console lines of the summary / fatal handler
    exitCode,   \* process exit code, NoExit while the process runs
    doc,        \* validator: the parsed index.html and the files on disk
    groupsRun,  \* the check groups entered so far, in order
    browser,    \* prober: "none" | "open" | "closed"
    contexts,   \* prober: the browsing contexts currently open
    everOpened, \* prober: number of contexts opened so far
    group,      \* prober: index of the current check group in Groups
    idx,        \* prober: index of the current route / viewport
    probe,      \* prober: what the page answered in the current group
    faults,     \* prober: answers so far that deviate from the healthy site
    prev,       \* validator: what the previous run on this document ended with
    site        \* site script: the FAQ items, the testimonials and the timers

vars == <<tool, pc, passed, failed, warnings, out, printed, exitCode, doc,
          groupsRun, browser, contexts, everOpened, group, idx, probe, faults,
          prev, site>>

proberVars == <<browser, contexts, everOpened, group, idx, probe, faults>>

\* exitCode while the process is still running (no process.exit yet)
NoExit == 0 - 1
Undef == "<undefined>"

(***************************************************************************)
(* Reporter: pass / fail / warn / check.  A reporter value r carries the    *)
(* three counters and the lines printed.                                    *)
(***************************************************************************)
Line(kind, label) == [kind |-> kind, label |-> label]

pass(r, label) ==
    [r EXCEPT !.passed = @ + 1, !.out = Append(@, Line("pass", label))]

\* fail() that also counts the line as passed
fail_countsPassedToo(r, label) ==
    [r EXCEPT !.failed = @ + 1, !.passed = @ + 1,
              !.out = Append(@, Line("fail", label))]

fail(r, label) ==
    [r EXCEPT !.failed = @ + 1, !.out = Append(@, Line("fail", label))]

warn(r, label) ==
    [r EXCEPT !.warnings = @ + 1, !.out = Append(@, Line("warn", label))]

check(r, label, condition) ==
    IF condition THEN pass(r, label) ELSE fail(r, label)

RECURSIVE failEach(_, _, _)
\* xs.forEach(x => fail(`${prefix}${x}`)); a label is a sequence of strings
failEach(r, prefix, xs) ==
    IF xs = <<>> THEN r
    ELSE failEach(fail(r, Append(prefix, Head(xs))), prefix, Tail(xs))

Reporter == [passed |-> passed, failed |-> failed, warnings |-> warnings,
             out |-> out, thrown |-> FALSE]

\* an exception leaves the block: what was reported before it stays
throw(r) == [r EXCEPT !.thrown = TRUE]

Commit(r) ==
    /\ passed' = r.passed
    /\ failed' = r.failed
    /\ warnings' = r.warnings
    /\ out' = r.out

RECURSIVE CountKind(_, _)
CountKind(lines, kind) ==
    IF lines = <<>> THEN 0
    ELSE (IF Head(lines).kind = kind THEN 1 ELSE 0) + CountKind(Tail(lines), kind)

\* the lines of out that carry label `label` with kind `kind`
Printed(lines, kind, label) ==
    {i \in 1..Len(lines) : lines[i] = Line(kind, label)}

(***************************************************************************)
(* Strings.  The scripts test strings only through startsWith, endsWith,    *)
(* slice, replace and existsSync; the model keeps the strings and gives     *)
(* each test as a table over the strings the bounded documents use.         *)
(***************************************************************************)
HttpUrl == "https://cdn.example/lib.css"
DataUrl == "data:image/png;base64,AA"

HashStrings == {"#", "#sobre", "#faq", "#nada", "#/app"}

\* s.startsWith(prefix)
startsWith(s, prefix) ==
    CASE prefix = "http" -> s \in {HttpUrl, "httpdocs/guia.html"}
      [] prefix = "data:" -> s = DataUrl
      [] prefix = "#" -> s \in HashStrings
      [] prefix = "mailto:" -> s = "mailto:oi@aizen.com"
      [] OTHER -> FALSE

\* src.endsWith('.svg')
endsWithSvg(s) == s \in {"img/b.svg"}

\* src.replace(/.*\//, '')
basename(s) ==
    CASE s = "img/a.png" -> "a.png"
      [] s = "img/b.svg" -> "b.svg"
      [] s = "img/c.svg?v=2" -> "c.svg?v=2"
      [] OTHER -> s

\* href.slice(1)
slice1(s) ==
    CASE s = "#sobre" -> "sobre"
      [] s = "#faq" -> "faq"
      [] s = "#nada" -> "nada"
      [] s = "#/app" -> "/app"
      [] s = "#" -> ""
      [] OTHER -> s

\* href.replace(/\/$/, '/index.html')
withIndex(s) ==
    CASE s = "privacidade/" -> "privacidade/index.html"
      [] s = "termos/" -> "termos/index.html"
      [] OTHER -> s

\* JavaScript truthiness of an attribute value: undefined and '' are falsy
truthy(v) == v # Undef /\ v # ""

\* v || ''
orEmpty(v) == IF truthy(v) THEN v ELSE ""

\* existsSync(join(__dirname, path))
existsSync(d, path) == path = "" \/ path \in d.disk

\* $(`#${targetId}`): cheerio parses the string as a CSS selector and throws
\* on one it cannot parse; "/app" is no selector.
selectorParses(targetId) == targetId \in {"sobre", "faq", "nada"}

\* $(`#${targetId}`).length > 0
idExists(d, targetId) == targetId \in d.ids

(***************************************************************************)
(* Schemas (zod).  A rule is literal(arg), includes(arg) or min(arg); a     *)
(* string tested only by .min(n) is kept as its length.  safeParse gives    *)
(* the violated fields in schema order, one issue per field.                *)
(***************************************************************************)
Rule(field, kind, arg) == [field |-> field, kind |-> kind, arg |-> arg]

\* s.includes('width=device-width')
includesDeviceWidth(s) == s \in {"width=device-width, initial-scale=1.0"}

Holds(rule, v) ==
    CASE rule.kind = "literal" -> v = rule.arg
      [] rule.kind = "includes" -> includesDeviceWidth(v)
      [] rule.kind = "min" -> v >= rule.arg

RECURSIVE safeParse(_, _)
safeParse(schema, data) ==
    IF schema = <<>> THEN <<>>
    ELSE (IF Holds(Head(schema), data[Head(schema).field])
          THEN <<>> ELSE <<Head(schema).field>>)
         \o safeParse(Tail(schema), data)

MetaSchema == <<
    Rule("charset", "literal", "UTF-8"),
    Rule("viewport", "includes", "width=device-width"),
    Rule("title", "min", 10),
    Rule("description", "min", 50),
    Rule("ogTitle", "min", 5),
    Rule("ogDescription", "min", 20),
    Rule("ogType", "literal", "website"),
    Rule("ogLocale", "literal", "pt_BR"),
    Rule("ogImage", "min", 1),
    Rule("lang", "literal", "pt-BR") >>

SectionSchema == <<
    Rule("hero", "literal", TRUE),
    Rule("sobre", "literal", TRUE),
    Rule("comoFunciona", "literal", TRUE),
    Rule("faq", "literal", TRUE),
    Rule("posicionamento", "literal", TRUE),
    Rule("bottomCta", "literal", TRUE),
    Rule("footer", "literal", TRUE) >>

ContentSchema == <<
    Rule("agentCards", "min", 10),
    Rule("agentTabs", "min", 10),
    Rule("faqItems", "min", 5),
    Rule("howItWorksSteps", "min", 3),
    Rule("forms", "min", 2),
    Rule("bankLogos", "min", 10) >>

FieldsOf(schema) == {schema[i].field : i \in 1..Len(schema)}

(***************************************************************************)
(* 1. Meta tags (and favicon)                                               *)
(***************************************************************************)
\* the meta check reporting the first issue only
MetaTags_firstIssueOnly(r, d) ==
    LET metaData == d.meta
        issues == safeParse(MetaSchema, metaData)
        r1 == IF issues = <<>> THEN pass(r, <<"All meta tags valid">>)
              ELSE fail(r, <<"Meta: ", Head(issues)>>)
    IN check(r1, <<"Favicon present">>, d.favicon)

MetaTags(r, d) ==
    LET metaData == d.meta
        issues == safeParse(MetaSchema, metaData)
        r1 == IF issues = <<>> THEN pass(r, <<"All meta tags valid">>)
              ELSE failEach(r, <<"Meta: ">>, issues)
    IN check(r1, <<"Favicon present">>, d.favicon)

(***************************************************************************)
(* 2. Required sections                                                     *)
(***************************************************************************)
RequiredSections(r, d) ==
    LET sections == [f \in FieldsOf(SectionSchema) |-> f \in d.sections]
        issues == safeParse(SectionSchema, sections)
    IN IF issues = <<>> THEN pass(r, <<"All required sections present">>)
       ELSE failEach(r, <<"Missing section: ">>, issues)

(***************************************************************************)
(* 3. Content structure, and the parts of every agent card                  *)
(***************************************************************************)
cardIncomplete(card) ==
    ~truthy(card.label) \/ ~truthy(card.title) \/ ~truthy(card.body) \/ card.tags < 3

RECURSIVE cardsEach(_, _, _)
\* $('.sobre-card').each((i, card) => ...), i counted from 0
cardsEach(r, cards, i) ==
    IF i >= Len(cards) THEN r
    ELSE cardsEach(IF cardIncomplete(cards[i + 1])
                   THEN fail(r, <<"Agent card incomplete", ToString(i)>>)
                   ELSE r,
                   cards, i + 1)

AgentCards(r, d) ==
    pass(cardsEach(r, d.cards, 0),
         <<"All agent cards have label, title, body, and tags">>)

ContentStructure(r, d) ==
    LET content == [agentCards |-> Len(d.cards),
                    agentTabs |-> d.counts.agentTabs,
                    faqItems |-> d.counts.faqItems,
                    howItWorksSteps |-> d.counts.howItWorksSteps,
                    forms |-> d.counts.forms,
                    bankLogos |-> d.counts.bankLogos]
        issues == safeParse(ContentSchema, content)
        r1 == IF issues = <<>> THEN pass(r, <<"Content structure valid">>)
              ELSE failEach(r, <<"Content: ">>, issues)
    IN AgentCards(r1, d)

(***************************************************************************)
(* 4. Asset files                                                           *)
(***************************************************************************)
\* Set.add: insertion order kept, a value already present is not added again
setAdd(xs, x) == IF \E i \in 1..Len(xs) : xs[i] = x THEN xs ELSE Append(xs, x)

RECURSIVE addImgSrcs(_, _)
addImgSrcs(acc, imgs) ==
    IF imgs = <<>> THEN acc
    ELSE LET src == Head(imgs).src
         IN addImgSrcs(IF src # Undef /\ truthy(src) /\ ~startsWith(src, "http")
                          /\ ~startsWith(src, "data:")
                       THEN setAdd(acc, src) ELSE acc, Tail(imgs))

RECURSIVE addLinkHrefs(_, _)
addLinkHrefs(acc, hrefs) ==
    IF hrefs = <<>> THEN acc
    ELSE LET href == Head(hrefs)
         IN addLinkHrefs(IF truthy(href) /\ ~startsWith(href, "http")
                            /\ ~startsWith(href, "#")
                         THEN setAdd(acc, href) ELSE acc, Tail(hrefs))

RECURSIVE addCssUrls(_, _)
addCssUrls(acc, urls) ==
    IF urls = <<>> THEN acc
    ELSE LET url == Head(urls)
         IN addCssUrls(IF ~startsWith(url, "http") /\ ~startsWith(url, "data:")
                       THEN setAdd(acc, url) ELSE acc, Tail(urls))

localAssets(d) ==
    addCssUrls(addLinkHrefs(addImgSrcs(<<>>, d.imgs), d.linkHrefs), d.cssUrls)

RECURSIVE missingOf(_, _)
missingOf(d, assets) ==
    IF assets = <<>> THEN <<>>
    ELSE (IF ~existsSync(d, Head(assets)) THEN <<Head(assets)>> ELSE <<>>)
         \o missingOf(d, Tail(assets))

AssetFiles(r, d) ==
    LET missingAssets == missingOf(d, localAssets(d))
    IN IF Len(missingAssets) = 0
       THEN pass(r, <<"All local assets exist on disk", ToString(Len(localAssets(d)))>>)
       ELSE failEach(r, <<"Missing asset: ">>, missingAssets)

(***************************************************************************)
(* 5. Internal links                                                        *)
(***************************************************************************)
RECURSIVE linksEach(_, _, _)
\* $('a[href]').each(...): acc holds anchorLinks, relativeLinks and whether
\* the selector lookup threw (the exception leaves the loop and the script)
linksEach(acc, d, hrefs) ==
    IF hrefs = <<>> \/ acc.thrown THEN acc
    ELSE LET href == Head(hrefs)
             next ==
               IF startsWith(href, "#") /\ href # "#"
               THEN LET targetId == slice1(href)
                    IN IF ~selectorParses(targetId)
                       THEN [acc EXCEPT !.thrown = TRUE]
                       ELSE IF ~idExists(d, targetId)
                            THEN [acc EXCEPT !.anchorLinks = Append(@, href)]
                            ELSE acc
               ELSE IF ~startsWith(href, "http") /\ ~startsWith(href, "mailto:")
                       /\ href # "#"
                    THEN IF ~existsSync(d, withIndex(href)) /\ ~existsSync(d, href)
                         THEN [acc EXCEPT !.relativeLinks = Append(@, href)]
                         ELSE acc
                    ELSE acc
         IN linksEach(next, d, Tail(hrefs))

InternalLinks(r, d) ==
    LET acc == linksEach([anchorLinks |-> <<>>, relativeLinks |-> <<>>,
                          thrown |-> FALSE], d, d.anchors)
        r1 == IF Len(acc.anchorLinks) = 0
              THEN pass(r, <<"All anchor links resolve to existing IDs">>)
              ELSE failEach(r, <<"Broken anchor: ">>, acc.anchorLinks)
        r2 == IF Len(acc.relativeLinks) = 0
              THEN pass(r1, <<"All relative links point to existing files">>)
              ELSE failEach(r1, <<"Broken relative link: ">>, acc.relativeLinks)
    IN IF acc.thrown THEN [r EXCEPT !.thrown = TRUE] ELSE r2

(***************************************************************************)
(* 6. Image accessibility & performance                                     *)
(***************************************************************************)
\* the early return of the callback: inline and source-less images are skipped
imgSkipped(img) ==
    LET src == orEmpty(img.src) IN startsWith(src, "data:") \/ ~truthy(src)

\* the alt test written as !alt: an empty alt fails too
imgMissingAlt_emptyAltToo(img) == ~imgSkipped(img) /\ ~truthy(img.alt)

imgMissingAlt(img) == ~imgSkipped(img) /\ img.alt = Undef

\* the dimension test without the SVG exemption
imgLazyWithoutDimensions_noSvgExemption(img) ==
    /\ ~imgSkipped(img)
    /\ img.loading = "lazy"
    /\ (~truthy(img.width) \/ ~truthy(img.height))

imgLazyWithoutDimensions(img) ==
    /\ ~imgSkipped(img)
    /\ img.loading = "lazy"
    /\ (~truthy(img.width) \/ ~truthy(img.height))
    /\ ~endsWithSvg(orEmpty(img.src))

RECURSIVE imgsEach(_, _)
imgsEach(imgIssues, imgs) ==
    IF imgs = <<>> THEN imgIssues
    ELSE LET img == Head(imgs)
             name == basename(orEmpty(img.src))
             a == IF imgMissingAlt(img)
                  THEN [imgIssues EXCEPT !.missingAlt = Append(@, name)]
                  ELSE imgIssues
             b == IF imgLazyWithoutDimensions(img)
                  THEN [a EXCEPT !.lazyWithoutDimensions = Append(@, name)]
                  ELSE a
         IN imgsEach(b, Tail(imgs))

Images(r, d) ==
    LET imgIssues == imgsEach([missingAlt |-> <<>>, lazyWithoutDimensions |-> <<>>],
                              d.imgs)
        r1 == IF Len(imgIssues.missingAlt) = 0
              THEN pass(r, <<"All images have alt attributes">>)
              ELSE failEach(r, <<"Missing alt: ">>, imgIssues.missingAlt)
    IN IF Len(imgIssues.lazyWithoutDimensions) = 0
       THEN pass(r1, <<"All lazy-loaded images have width/height">>)
       ELSE failEach(r1, <<"Lazy image without dimensions: ">>,
                     imgIssues.lazyWithoutDimensions)

(***************************************************************************)
(* 7. Translations: allJs is kept as the set of the needles it includes     *)
(***************************************************************************)
TranslationNames == <<"enSelectors", "enCards", "enTabs", "enFaq", "enSteps",
    "enHow", "enCta", "enFooter", "enForm", "enConsent", "enLegalLinks",
    "enLegalDisclaimer", "chatDataEN", "illustrationMap">>

RECURSIVE literalTrue(_)
literalTrue(names) ==
    IF names = <<>> THEN <<>>
    ELSE <<Rule(Head(names), "literal", TRUE)>> \o literalTrue(Tail(names))

TranslationSchema == literalTrue(TranslationNames)

jsIncludes(d, needle) == needle \in d.js

RECURSIVE checkEach(_, _, _)
\* a run of check(label, allJs.includes(needle)) statements
checkEach(r, d, needles) ==
    IF needles = <<>> THEN r
    ELSE checkEach(check(r, <<"exists", Head(needles)>>, jsIncludes(d, Head(needles))),
                   d, Tail(needles))

Translations(r, d) ==
    LET translations == [f \in FieldsOf(TranslationSchema) |-> jsIncludes(d, f)]
        issues == safeParse(TranslationSchema, translations)
        r1 == IF issues = <<>> THEN pass(r, <<"All 14 translation objects present">>)
              ELSE failEach(r, <<"Translation: ">>, issues)
        r2 == checkEach(r1, d, <<"function initI18n()", "function switchLang(",
                  "function translateIllustrations(", "function restartChat()",
                  "chatAnimationTimeouts", "function trackTimeout(">>)
        hasLocalStorageLang == jsIncludes(d, "localStorage.getItem('zenLang')")
        r3 == check(r2, <<"No localStorage language auto-restore on load">>,
                    ~hasLocalStorageLang)
    IN check(r3, <<"Default currentLang is pt">>, jsIncludes(d, "let currentLang = 'pt'"))

(***************************************************************************)
(* 8. Chat data: whether each array literal is found, and the number of     *)
(* "{ messages:" in it                                                      *)
(***************************************************************************)
chatCount(r, match, okLabel, missingLabel) ==
    IF match.found THEN check(r, <<okLabel>>, match.count = 4)
    ELSE fail(r, <<missingLabel>>)

ChatData(r, d) ==
    chatCount(chatCount(r, d.ptChat, "PT chat data has 4 conversations",
                        "PT chatData not found"),
              d.enChat, "EN chat data has 4 conversations", "EN chatDataEN not found")

(***************************************************************************)
(* 9. Legal & compliance                                                    *)
(***************************************************************************)
LegalFacts == <<"Privacy policy link exists", "Data retention PDF linked",
    "Incident reporting PDF linked", "CNPJ present in footer",
    "Company name in footer", "Correspondente Bancario disclosure",
    "Form consent text present">>

RECURSIVE legalEach(_, _, _)
legalEach(r, d, facts) ==
    IF facts = <<>> THEN r
    ELSE legalEach(check(r, <<Head(facts)>>, Head(facts) \in d.legal), d, Tail(facts))

Legal(r, d) == legalEach(r, d, LegalFacts)

(***************************************************************************)
(* 10. Typography & content quality                                         *)
(***************************************************************************)
ContentQuality(r, d) ==
    LET q == d.quality
        r1 == check(r, <<"No references to old name Aleah">>, ~q.hasAleah)
        r2 == IF q.hasTodos THEN warn(r1, <<"Found TODO/FIXME/HACK comments in HTML">>)
              ELSE pass(r1, <<"No TODO/FIXME/HACK comments">>)
        r3 == IF q.hasEmDash THEN warn(r2, <<"Em dashes found in visible text">>)
              ELSE pass(r2, <<"No em dashes in visible text">>)
        r4 == IF q.placeholderPhone
              THEN warn(r3, <<"WhatsApp uses placeholder number">>)
              ELSE pass(r3, <<"WhatsApp number is not a placeholder">>)
    IN IF q.socialPlaceholders > 0
       THEN warn(r4, <<"placeholder social links in footer", ToString(q.socialPlaceholders)>>)
       ELSE pass(r4, <<"All footer links have real URLs">>)

(***************************************************************************)
(* 11. External dependencies                                                *)
(***************************************************************************)
requiredCDNs == <<"cdn.tailwindcss.com", "fonts.googleapis.com",
    "cdnjs.cloudflare.com/ajax/libs/gsap", "unpkg.com/lucide", "iconify", "lenis">>

RECURSIVE cdnEach(_, _, _)
cdnEach(r, d, cdns) ==
    IF cdns = <<>> THEN r
    ELSE cdnEach(check(r, <<"CDN loaded: ", Head(cdns)>>, Head(cdns) \in d.cdns),
                 d, Tail(cdns))

ExternalDependencies(r, d) == cdnEach(r, d, requiredCDNs)

(***************************************************************************)
(* Summary: the verdict line and the exit code                              *)
(***************************************************************************)
\* a summary that lets warnings fail the run
summary_warningsFail(f, w) ==
    IF f > 0 \/ w > 0 THEN [verdict |-> "VALIDATION FAILED", code |-> 1]
    ELSE [verdict |-> "ALL CHECKS PASSED", code |-> 0]

summary(f, w) ==
    IF f > 0 THEN [verdict |-> "VALIDATION FAILED", code |-> 1]
    ELSE IF w > 0 THEN [verdict |-> "PASSED WITH WARNINGS", code |-> 0]
    ELSE [verdict |-> "ALL CHECKS PASSED", code |-> 0]

(***************************************************************************)
(* The whole script as a function of the document: the sections in order,  *)
(* stopping at an exception nothing catches, then the summary.              *)
(***************************************************************************)
NewReporter == [passed |-> 0, failed |-> 0, warnings |-> 0, out |-> <<>>,
                thrown |-> FALSE]

Section(at, r, d) ==
    CASE at = "g1" -> MetaTags(r, d)
      [] at = "g2" -> RequiredSections(r, d)
      [] at = "g3" -> ContentStructure(r, d)
      [] at = "g4" -> AssetFiles(r, d)
      [] at = "g5" -> InternalLinks(r, d)
      [] at = "g6" -> Images(r, d)
      [] at = "g7" -> Translations(r, d)
      [] at = "g8" -> ChatData(r, d)
      [] at = "g9" -> Legal(r, d)
      [] at = "g10" -> ContentQuality(r, d)
      [] at = "g11" -> ExternalDependencies(r, d)

RECURSIVE sections(_, _, _)
sections(r, d, ats) ==
    IF ats = <<>> \/ r.thrown THEN r
    ELSE sections(Section(Head(ats), r, d), d, Tail(ats))

validate(d) ==
    LET r == IF d.readable
             THEN sections(NewReporter, d, <<"g1", "g2", "g3", "g4", "g5", "g6",
                                             "g7", "g8", "g9", "g10", "g11">>)
             ELSE throw(NewReporter)
        s == summary(r.failed, r.warnings)
    IN [passed |-> r.passed, failed |-> r.failed, warnings |-> r.warnings,
        out |-> r.out,
        printed |-> IF r.thrown THEN <<"uncaught exception">>
                    ELSE <<"Results", s.verdict>>,
        exitCode |-> IF r.thrown THEN 1 ELSE s.code]

(***************************************************************************)
(* The documents the validator is run on.  RefDoc passes every check; the  *)
(* families below vary it.                                                  *)
(***************************************************************************)
MaxCardsVaried == 2
MaxImgs == 2

CompleteCard == [label |-> "AGENTE", title |-> "Zen Contas", body |-> "Paga",
                 tags |-> 3]

CardUniverse == [label : {"", "AGENTE"}, title : {"", "Zen Contas"},
                 body : {"", "Paga"}, tags : {2, 3}]

GoodImg == [src |-> "img/a.png", alt |-> "Logo", width |-> "100", height |-> "100",
            loading |-> "lazy"]

ImgUniverse == [src : {Undef, "", DataUrl, "img/a.png", "img/b.svg", "img/c.svg?v=2"},
                alt : {Undef, "", "Logo"},
                width : {Undef, "", "100"},
                height : {Undef, "100"},
                loading : {Undef, "lazy", "eager"}]

ImgFew == {GoodImg,
           [GoodImg EXCEPT !.alt = Undef],
           [GoodImg EXCEPT !.width = Undef],
           [GoodImg EXCEPT !.src = DataUrl, !.alt = Undef, !.height = Undef]}

AllFiles == {"img/a.png", "img/b.svg", "css/site.css", "privacidade/",
             "privacidade/index.html", "legal/politica.html"}

RefDoc == [
    readable |-> TRUE,
    meta |-> [charset |-> "UTF-8",
              viewport |-> "width=device-width, initial-scale=1.0",
              title |-> 36, description |-> 120, ogTitle |-> 36,
              ogDescription |-> 120, ogType |-> "website", ogLocale |-> "pt_BR",
              ogImage |-> 40, lang |-> "pt-BR"],
    favicon |-> TRUE,
    sections |-> FieldsOf(SectionSchema),
    cards |-> [i \in 1..10 |-> CompleteCard],
    counts |-> [agentTabs |-> 10, faqItems |-> 5, howItWorksSteps |-> 3,
                forms |-> 2, bankLogos |-> 10],
    imgs |-> <<GoodImg>>,
    linkHrefs |-> <<"css/site.css", HttpUrl>>,
    cssUrls |-> <<>>,
    disk |-> AllFiles,
    anchors |-> <<"#sobre", "#", "privacidade/", HttpUrl>>,
    ids |-> {"sobre", "faq", "hero"},
    js |-> FieldsOf(TranslationSchema) \cup {"function initI18n()",
              "function switchLang(", "function translateIllustrations(",
              "function restartChat()", "chatAnimationTimeouts",
              "function trackTimeout(", "let currentLang = 'pt'"},
    ptChat |-> [found |-> TRUE, count |-> 4],
    enChat |-> [found |-> TRUE, count |-> 4],
    legal |-> {LegalFacts[i] : i \in 1..Len(LegalFacts)},
    quality |-> [hasAleah |-> FALSE, hasTodos |-> FALSE, hasEmDash |-> FALSE,
                 placeholderPhone |-> FALSE, socialPlaceholders |-> 0],
    cdns |-> {requiredCDNs[i] : i \in 1..Len(requiredCDNs)} ]

\* sequences of at most n elements of S
SeqsUpTo(S, n) == UNION {[1..k -> S] : k \in 0..n}

\* whole-run family: each part is the reference or one defect
SmallDocs ==
    {[RefDoc EXCEPT !.meta.lang = lang, !.cards[1].tags = tags, !.imgs = imgs,
                    !.disk = disk, !.anchors = anchors, !.enChat.found = en,
                    !.quality.placeholderPhone = q.phone,
                    !.quality.socialPlaceholders = q.social,
                    !.cdns = cdns] :
        lang \in {"pt-BR", "en"}, tags \in {3, 2},
        imgs \in {<<GoodImg>>, <<[GoodImg EXCEPT !.alt = Undef]>>},
        disk \in {AllFiles, AllFiles \ {"css/site.css"}},
        anchors \in {RefDoc.anchors, <<"#nada">>, <<"#sobre", "#/app", "#faq">>},
        en \in BOOLEAN,
        q \in {[phone |-> FALSE, social |-> 0], [phone |-> TRUE, social |-> 0],
               [phone |-> TRUE, social |-> 2]},
        cdns \in {RefDoc.cdns, RefDoc.cdns \ {"lenis"}}}
    \cup {[RefDoc EXCEPT !.readable = FALSE]}

\* card family: the first cards arbitrary, the rest complete; ten cards or
\* only the varied ones
CardDocs ==
    {[RefDoc EXCEPT !.cards = varied \o [i \in 1..rest |-> CompleteCard]] :
        varied \in SeqsUpTo(CardUniverse, MaxCardsVaried), rest \in {0, 10}}

\* image family: one arbitrary image, then images of ImgFew
ImageDocs ==
    {[RefDoc EXCEPT !.imgs = imgs] :
        imgs \in {<<>>} \cup
                 {<<first>> \o more : first \in ImgUniverse,
                                      more \in SeqsUpTo(ImgFew, MaxImgs - 1)}}

\* link family: a few anchors over every kind of href, and the disk with a
\* page or a directory missing, or a directory that has no index document
MaxLinks == 2

LinkUniverse == {"#sobre", "#/app", "#", HttpUrl, "mailto:oi@aizen.com",
                 "tel:+5511999999999", "httpdocs/guia.html", "privacidade/",
                 "termos/", "legal/politica.html"}

LinkDisks == {AllFiles,
              AllFiles \cup {"termos/"},
              AllFiles \ {"privacidade/", "privacidade/index.html"},
              AllFiles \ {"legal/politica.html"}}

LinkDocs ==
    {[RefDoc EXCEPT !.anchors = anchors, !.disk = disk] :
        anchors \in SeqsUpTo(LinkUniverse, MaxLinks), disk \in LinkDisks}

\* asset family: image sources, link hrefs and url(...) occurrences over
\* present, absent, remote and inline references, some of them repeated
MaxRefs == 2

AssetImgs == {GoodImg, [GoodImg EXCEPT !.src = "img/nada.png"],
              [GoodImg EXCEPT !.src = DataUrl]}

AssetHrefs == {"css/site.css", "img/nada.png", HttpUrl, DataUrl, "#"}

AssetUrls == {"img/a.png", "img/nada.png", HttpUrl, DataUrl}

AssetDisks == {AllFiles, AllFiles \ {"css/site.css", "img/a.png"}}

AssetDocs ==
    {[RefDoc EXCEPT !.imgs = imgs, !.linkHrefs = hrefs, !.cssUrls = urls,
                    !.disk = disk] :
        imgs \in SeqsUpTo(AssetImgs, MaxRefs), hrefs \in SeqsUpTo(AssetHrefs, MaxRefs),
        urls \in SeqsUpTo(AssetUrls, 1), disk \in AssetDisks}

\* meta family: every field at a value that satisfies its rule and at one
\* that violates it, with and without the anchor the selector lookup
\* cannot parse
MetaUniverse == [charset : {"UTF-8", "utf-8"},
                 viewport : {"width=device-width, initial-scale=1.0", "width=1024"},
                 title : {9, 10}, description : {49, 50}, ogTitle : {4, 5},
                 ogDescription : {19, 20}, ogType : {"website", "article"},
                 ogLocale : {"pt_BR", "en_US"}, ogImage : {0, 1},
                 lang : {"pt-BR", "en", ""}]

MetaDocs ==
    {[RefDoc EXCEPT !.meta = meta, !.anchors = anchors] :
        meta \in MetaUniverse, anchors \in {RefDoc.anchors, <<"#/app">>}}

(***************************************************************************)
(* The validator script, one step per numbered section                     *)
(***************************************************************************)
NoProbe == [throwAt |-> 0]

\* no earlier run
NoRun == [ran |-> FALSE, passed |-> 0, failed |-> 0, warnings |-> 0, out |-> <<>>,
          printed |-> <<>>, exitCode |-> NoExit]

\* no page of the site is loaded
NoSite == [faqItems |-> 0, open |-> {}, total |-> 0, dots |-> 0,
           currentTestimonial |-> 0, activeTestimonials |-> {}, activeDots |-> {},
           timers |-> {}, autoplayTimer |-> 0, nextTimer |-> 1,
           last |-> [kind |-> "none", index |-> 0]]

InitCommon ==
    /\ prev = NoRun
    /\ passed = 0 /\ failed = 0 /\ warnings = 0
    /\ out = <<>> /\ printed = <<>>
    /\ exitCode = NoExit
    /\ groupsRun = <<>>
    /\ browser = "none" /\ contexts = {} /\ everOpened = 0
    /\ group = 0 /\ idx = 0 /\ probe = NoProbe /\ faults = 0

InitValidator(docs) ==
    /\ tool = "validator"
    /\ site = NoSite
    /\ pc = "load"
    /\ doc \in docs
    /\ InitCommon

\* an exception nothing catches: node prints it and exits with code 1
Uncaught ==
    /\ printed' = Append(printed, "uncaught exception")
    /\ exitCode' = 1
    /\ pc' = "exited"

VOrder == <<"load", "g1", "g2", "g3", "g4", "g5", "g6", "g7", "g8", "g9", "g10",
            "g11", "summary">>

VNext(at) == VOrder[(CHOOSE i \in 1..Len(VOrder) : VOrder[i] = at) + 1]

\* const html = readFileSync(...); const $ = cheerio.load(html)
VLoad ==
    /\ tool = "validator" /\ pc = "load"
    /\ IF doc.readable
       THEN pc' = VNext(pc) /\ UNCHANGED <<printed, exitCode>>
       ELSE Uncaught
    /\ UNCHANGED <<site, prev, tool, passed, failed, warnings, out, doc, groupsRun, proberVars>>

VGroup(at, r) ==
    /\ tool = "validator" /\ pc = at
    /\ groupsRun' = Append(groupsRun, at)
    /\ Commit(r)
    /\ IF r.thrown THEN Uncaught
       ELSE pc' = VNext(at) /\ UNCHANGED <<printed, exitCode>>
    /\ UNCHANGED <<site, prev, tool, doc, proberVars>>

VMetaTags == VGroup("g1", MetaTags(Reporter, doc))
VRequiredSections == VGroup("g2", RequiredSections(Reporter, doc))
VContentStructure == VGroup("g3", ContentStructure(Reporter, doc))
VAssetFiles == VGroup("g4", AssetFiles(Reporter, doc))
VInternalLinks == VGroup("g5", InternalLinks(Reporter, doc))
VImages == VGroup("g6", Images(Reporter, doc))
VTranslations == VGroup("g7", Translations(Reporter, doc))
VChatData == VGroup("g8", ChatData(Reporter, doc))
VLegal == VGroup("g9", Legal(Reporter, doc))
VContentQuality == VGroup("g10", ContentQuality(Reporter, doc))
VExternalDependencies == VGroup("g11", ExternalDependencies(Reporter, doc))

VSummary ==
    /\ tool = "validator" /\ pc = "summary"
    /\ LET s == summary(failed, warnings)
       IN /\ printed' = printed \o <<"Results", s.verdict>>
          /\ exitCode' = s.code
    /\ pc' = "exited"
    /\ UNCHANGED <<site, prev, tool, passed, failed, warnings, out, doc, groupsRun, proberVars>>

NextValidator ==
    \/ VLoad
    \/ VMetaTags
    \/ VRequiredSections
    \/ VContentStructure
    \/ VAssetFiles
    \/ VInternalLinks
    \/ VImages
    \/ VTranslations
    \/ VChatData
    \/ VLegal
    \/ VContentQuality
    \/ VExternalDependencies
    \/ VSummary

\* a second run that goes on counting where the first one ended
VRerun_countersKept ==
    /\ tool = "validator" /\ pc = "exited" /\ ~prev.ran
    /\ prev' = [ran |-> TRUE, passed |-> passed, failed |-> failed,
                warnings |-> warnings, out |-> out, printed |-> printed,
                exitCode |-> exitCode]
    /\ out' = <<>> /\ printed' = <<>>
    /\ exitCode' = NoExit
    /\ groupsRun' = <<>>
    /\ pc' = "load"
    /\ UNCHANGED <<site, tool, doc, passed, failed, warnings, proberVars>>

\* node validate.mjs once more on the same index.html and the same files: a
\* new process, whose counters start at 0
VRerun ==
    /\ tool = "validator" /\ pc = "exited" /\ ~prev.ran
    /\ prev' = [ran |-> TRUE, passed |-> passed, failed |-> failed,
                warnings |-> warnings, out |-> out, printed |-> printed,
                exitCode |-> exitCode]
    /\ passed' = 0 /\ failed' = 0 /\ warnings' = 0
    /\ out' = <<>> /\ printed' = <<>>
    /\ exitCode' = NoExit
    /\ groupsRun' = <<>>
    /\ pc' = "load"
    /\ UNCHANGED <<site, tool, doc, proberVars>>

NextTwice ==
    \/ NextValidator
    \/ VRerun

SpecTwice == InitValidator(SmallDocs) /\ [][NextTwice]_vars
SpecCards == InitValidator(CardDocs) /\ [][NextValidator]_vars
SpecImages == InitValidator(ImageDocs) /\ [][NextValidator]_vars
SpecValidator == InitValidator(SmallDocs) /\ [][NextValidator]_vars
SpecLinks == InitValidator(LinkDocs) /\ [][NextValidator]_vars
SpecAssets == InitValidator(AssetDocs) /\ [][NextValidator]_vars
SpecMeta == InitValidator(MetaDocs) /\ [][NextValidator]_vars

(***************************************************************************)
(* The browser QA script.  run() is an async function: the model takes one *)
(* step to open a group's context and page, one for the group's navigation, *)
(* probes and reports, one to close the context.  `probe` is what the page  *)
(* answers: throwAt = k says the k-th awaited goto/evaluate of the group     *)
(* rejects (a navigation timeout, an exception inside evaluate), 0 that     *)
(* none does.                                                               *)
(***************************************************************************)
MaxFaults == 2
MaxJsErrors == 2
MaxBroken == 2

PAGES == <<"Home", "Privacy Policy", "Privacy PDF">>
VIEWPORTS == <<"Mobile (iPhone 14)", "Tablet (iPad)", "Desktop", "Wide Desktop">>

Groups == <<"load", "responsive", "images", "lang", "anim", "inter", "perf">>

\* how many times each group's block runs
Rounds(g) ==
    CASE Groups[g] = "load" -> Len(PAGES)
      [] Groups[g] = "responsive" -> Len(VIEWPORTS)
      [] OTHER -> 1

\* the k-th await of the group completed
Reached(p, k) == p.throwAt = 0 \/ p.throwAt > k

\* a page load whose catch block lets the error through
PageLoad_rethrows(r, pg, p) ==
    IF p.throwAt = 1 THEN throw(fail(r, <<pg, "load">>))
    ELSE LET r1 == IF p.status = "200" THEN pass(r, <<pg, "loads">>)
                   ELSE fail(r, <<pg, "load">>)
         IN IF p.errors = 0 THEN pass(r1, <<pg, "no JS errors">>)
            ELSE failEach(r1, <<pg, "JS error">>, [i \in 1..p.errors |-> ToString(i)])

\* 1. Page load: the try block and its catch
PageLoad(r, pg, p) ==
    IF p.throwAt = 1 THEN fail(r, <<pg, "load">>)
    ELSE LET r1 == IF p.status = "200" THEN pass(r, <<pg, "loads">>)
                   ELSE fail(r, <<pg, "load">>)
         IN IF p.errors = 0 THEN pass(r1, <<pg, "no JS errors">>)
            ELSE failEach(r1, <<pg, "JS error">>, [i \in 1..p.errors |-> ToString(i)])

\* 2. Responsive layout: goto, then four evaluate calls, nothing caught
ResponsiveLayout(r, vp, p) ==
    LET r1 == IF ~Reached(p, 2) THEN r
              ELSE IF p.noOverflow THEN pass(r, <<vp, "no horizontal overflow">>)
              ELSE fail(r, <<vp, "horizontal overflow">>)
        r2 == IF ~Reached(p, 3) THEN r1
              ELSE IF p.navVisible THEN pass(r1, <<vp, "nav visible">>)
              ELSE fail(r1, <<vp, "nav not visible">>)
        r3 == IF ~Reached(p, 4) THEN r2
              ELSE IF p.phoneVisible THEN pass(r2, <<vp, "phone mockup visible">>)
              ELSE fail(r2, <<vp, "phone mockup hidden or collapsed">>)
        r4 == IF ~Reached(p, 5) THEN r3
              ELSE IF p.footerVisible THEN pass(r3, <<vp, "footer accessible">>)
              ELSE fail(r3, <<vp, "footer not accessible">>)
    IN IF p.throwAt # 0 THEN throw(r4) ELSE r4

\* 3. Images: goto, the scrolling evaluate, the brokenImages evaluate
ImagesLoaded(r, p) ==
    IF p.throwAt # 0 THEN throw(r)
    ELSE IF p.brokenImages = 0 THEN pass(r, <<"All images loaded after full scroll">>)
    ELSE failEach(r, <<"Broken image: ">>, [i \in 1..p.brokenImages |-> ToString(i)])

\* 4. Language switching: goto and six evaluate calls.  The stress loop runs
\* inside one evaluate whose try/catch collects what switchLang throws
\* synchronously; an error thrown later from a timer is a pageerror event,
\* and this page has no pageerror listener.
LanguageSwitching(r, p) ==
    LET r1 == IF ~Reached(p, 2) THEN r
              ELSE IF p.defaultPt THEN pass(r, <<"Default language is pt-BR">>)
              ELSE fail(r, <<"Default language">>)
        r2 == IF ~Reached(p, 4) THEN r1
              ELSE IF p.enWorks THEN pass(r1, <<"Switch to English works">>)
              ELSE fail(r1, <<"Switch to English">>)
        r3 == IF ~Reached(p, 6) THEN r2
              ELSE IF p.ptWorks THEN pass(r2, <<"Switch back to Portuguese works">>)
              ELSE fail(r2, <<"Switch back to Portuguese">>)
        stressErrors == IF p.syncError THEN <<"sync">> ELSE <<>>
        r4 == IF ~Reached(p, 7) THEN r3
              ELSE IF Len(stressErrors) = 0
              THEN pass(r3, <<"Rapid language switching (10 cycles) - no errors">>)
              ELSE failEach(r3, <<"Stress test error">>, stressErrors)
    IN IF p.throwAt # 0 THEN throw(r4) ELSE r4

\* 5. Chat animation: goto, the chatState evaluate, the restartCheck evaluate
ChatAnimation(r, p) ==
    LET r1 == IF ~Reached(p, 2) THEN r
              ELSE check(check(check(r, <<"Chat animation running">>, p.messages),
                               <<"Chat cycle timeout is set">>, p.hasTimeout),
                         <<"Animation timeout tracking array exists">>, p.trackingArray)
        r2 == IF ~Reached(p, 3) THEN r1
              ELSE check(r1, <<"Chat restarts cleanly with new messages">>,
                         p.messagesAfterRestart)
    IN IF p.throwAt # 0 THEN throw(r2) ELSE r2

\* the interactive checks with the accordion as a hard assertion
InteractiveElements_hardAccordion(r, p) ==
    LET r1 == IF ~Reached(p, 2) THEN r
              ELSE IF p.faqWorks THEN pass(r, <<"FAQ accordion opens on click">>)
              ELSE fail(r, <<"FAQ accordion may not be working (check manually)">>)
        r2 == IF ~Reached(p, 3) THEN r1
              ELSE IF p.tabsWork THEN pass(r1, <<"Agent tabs are clickable">>)
              ELSE fail(r1, <<"Agent tabs not working">>)
        r3 == IF ~Reached(p, 4) THEN r2
              ELSE IF p.formWorks THEN pass(r2, <<"Hero form accepts input">>)
              ELSE fail(r2, <<"Hero form input broken">>)
        r4 == IF ~Reached(p, 5) THEN r3
              ELSE IF p.scrollWorks THEN pass(r3, <<"Navigation scrolls to sections">>)
              ELSE warn(r3, <<"Smooth scroll may not be working (check manually)">>)
    IN IF p.throwAt # 0 THEN throw(r4) ELSE r4

\* 6. Interactive elements: goto and four evaluate calls
InteractiveElements(r, p) ==
    LET r1 == IF ~Reached(p, 2) THEN r
              ELSE IF p.faqWorks THEN pass(r, <<"FAQ accordion opens on click">>)
              ELSE warn(r, <<"FAQ accordion may not be working (check manually)">>)
        r2 == IF ~Reached(p, 3) THEN r1
              ELSE IF p.tabsWork THEN pass(r1, <<"Agent tabs are clickable">>)
              ELSE fail(r1, <<"Agent tabs not working">>)
        r3 == IF ~Reached(p, 4) THEN r2
              ELSE IF p.formWorks THEN pass(r2, <<"Hero form accepts input">>)
              ELSE fail(r2, <<"Hero form input broken">>)
        r4 == IF ~Reached(p, 5) THEN r3
              ELSE IF p.scrollWorks THEN pass(r3, <<"Navigation scrolls to sections">>)
              ELSE warn(r3, <<"Smooth scroll may not be working (check manually)">>)
    IN IF p.throwAt # 0 THEN throw(r4) ELSE r4

\* 7. Performance: goto (30 s), then the resources evaluate
Performance(r, p) ==
    LET r1 == IF ~Reached(p, 1) THEN r
              ELSE IF p.loadTime < 3000 THEN pass(r, <<"Page load">>)
              ELSE IF p.loadTime < 5000 THEN warn(r, <<"Page load">>)
              ELSE fail(r, <<"Page load">>)
        r2 == IF ~Reached(p, 2) THEN r1
              ELSE IF p.totalKB < 5000 THEN pass(r1, <<"Total resources">>)
              ELSE warn(r1, <<"Total resources">>)
    IN IF p.throwAt # 0 THEN throw(r2) ELSE r2

(***************************************************************************)
(* What the page may answer in each group.  Answers the script never reads  *)
(* (those after the await that rejects) are held at their healthy value.    *)
(***************************************************************************)
Healthy(g) ==
    CASE Groups[g] = "load" -> [throwAt |-> 0, status |-> "200", errors |-> 0]
      [] Groups[g] = "responsive" ->
            [throwAt |-> 0, noOverflow |-> TRUE, navVisible |-> TRUE,
             phoneVisible |-> TRUE, footerVisible |-> TRUE]
      [] Groups[g] = "images" -> [throwAt |-> 0, brokenImages |-> 0]
      [] Groups[g] = "lang" ->
            [throwAt |-> 0, defaultPt |-> TRUE, enWorks |-> TRUE, ptWorks |-> TRUE,
             syncError |-> FALSE, asyncError |-> FALSE]
      [] Groups[g] = "anim" ->
            [throwAt |-> 0, messages |-> TRUE, hasTimeout |-> TRUE,
             trackingArray |-> TRUE, messagesAfterRestart |-> TRUE]
      [] Groups[g] = "inter" ->
            [throwAt |-> 0, faqWorks |-> TRUE, tabsWork |-> TRUE, formWorks |-> TRUE,
             scrollWorks |-> TRUE]
      [] Groups[g] = "perf" -> [throwAt |-> 0, loadTime |-> 2999, totalKB |-> 4999]

\* field f is read only after await k completed
ReadAfter(p, g, f, k) == Reached(p, k) \/ p[f] = Healthy(g)[f]

Probes(g) ==
    CASE Groups[g] = "load" ->
            {p \in [throwAt : 0..1, status : {"200", "404", Undef},
                    errors : 0..MaxJsErrors] : ReadAfter(p, g, "status", 1)}
      [] Groups[g] = "responsive" ->
            {p \in [throwAt : 0..5, noOverflow : BOOLEAN, navVisible : BOOLEAN,
                    phoneVisible : BOOLEAN, footerVisible : BOOLEAN] :
                /\ ReadAfter(p, g, "noOverflow", 2)
                /\ ReadAfter(p, g, "navVisible", 3)
                /\ ReadAfter(p, g, "phoneVisible", 4)
                /\ ReadAfter(p, g, "footerVisible", 5)}
      [] Groups[g] = "images" ->
            {p \in [throwAt : 0..3, brokenImages : 0..MaxBroken] :
                ReadAfter(p, g, "brokenImages", 3)}
      [] Groups[g] = "lang" ->
            {p \in [throwAt : 0..7, defaultPt : BOOLEAN, enWorks : BOOLEAN,
                    ptWorks : BOOLEAN, syncError : BOOLEAN, asyncError : BOOLEAN] :
                /\ ReadAfter(p, g, "defaultPt", 2)
                /\ ReadAfter(p, g, "enWorks", 4)
                /\ ReadAfter(p, g, "ptWorks", 6)
                /\ ReadAfter(p, g, "syncError", 7)
                /\ ReadAfter(p, g, "asyncError", 7)}
      [] Groups[g] = "anim" ->
            {p \in [throwAt : 0..3, messages : BOOLEAN, hasTimeout : BOOLEAN,
                    trackingArray : BOOLEAN, messagesAfterRestart : BOOLEAN] :
                /\ ReadAfter(p, g, "messages", 2)
                /\ ReadAfter(p, g, "hasTimeout", 2)
                /\ ReadAfter(p, g, "trackingArray", 2)
                /\ ReadAfter(p, g, "messagesAfterRestart", 3)
                \* restartCheck reads chatAnimationTimeouts.length: a
                \* ReferenceError when the array is not defined
                /\ (Reached(p, 2) /\ ~p.trackingArray) => p.throwAt = 3}
      [] Groups[g] = "inter" ->
            {p \in [throwAt : 0..5, faqWorks : BOOLEAN, tabsWork : BOOLEAN,
                    formWorks : BOOLEAN, scrollWorks : BOOLEAN] :
                /\ ReadAfter(p, g, "faqWorks", 2)
                /\ ReadAfter(p, g, "tabsWork", 3)
                /\ ReadAfter(p, g, "formWorks", 4)
                /\ ReadAfter(p, g, "scrollWorks", 5)}
      [] Groups[g] = "perf" ->
            {p \in [throwAt : 0..2, loadTime : {2999, 3000, 4999, 5000},
                    totalKB : {4999, 5000}] :
                /\ ReadAfter(p, g, "loadTime", 1)
                /\ ReadAfter(p, g, "totalKB", 2)}

\* the answers of p that deviate from the healthy site
Faults(p, g) == Cardinality({f \in DOMAIN p : p[f] # Healthy(g)[f]})

\* the browser script reads no document
NoDoc == <<>>

InitProber ==
    /\ tool = "prober"
    /\ site = NoSite
    /\ pc = "launch"
    /\ doc = NoDoc
    /\ InitCommon

\* const browser = await chromium.launch(...): the engine starts or the
\* promise rejects
PLaunch ==
    /\ tool = "prober" /\ pc = "launch"
    /\ \/ browser' = "open" /\ pc' = "open" /\ group' = 1 /\ idx' = 1
       \/ pc' = "rejected" /\ UNCHANGED <<browser, group, idx>>
    /\ UNCHANGED <<site, prev, tool, passed, failed, warnings, out, printed, exitCode, doc,
                   groupsRun, contexts, everOpened, probe, faults>>

\* browser.newContext(...); context.newPage()
POpen ==
    /\ tool = "prober" /\ pc = "open"
    /\ everOpened' = everOpened + 1
    /\ contexts' = contexts \cup {everOpened + 1}
    /\ pc' = "act"
    /\ UNCHANGED <<site, prev, tool, passed, failed, warnings, out, printed, exitCode, doc,
                   groupsRun, browser, group, idx, probe, faults>>

GroupBody(g, r, i, p) ==
    CASE Groups[g] = "load" -> PageLoad(r, PAGES[i], p)
      [] Groups[g] = "responsive" -> ResponsiveLayout(r, VIEWPORTS[i], p)
      [] Groups[g] = "images" -> ImagesLoaded(r, p)
      [] Groups[g] = "lang" -> LanguageSwitching(r, p)
      [] Groups[g] = "anim" -> ChatAnimation(r, p)
      [] Groups[g] = "inter" -> InteractiveElements(r, p)
      [] Groups[g] = "perf" -> Performance(r, p)

\* the group's goto, evaluate calls and reports; an error nothing in run()
\* catches rejects run()
PAct ==
    /\ tool = "prober" /\ pc = "act"
    /\ \E p \in Probes(group) :
         /\ faults + Faults(p, group) <= MaxFaults
         /\ probe' = p
         /\ faults' = faults + Faults(p, group)
         /\ LET r == GroupBody(group, Reporter, idx, p)
            IN /\ Commit(r)
               /\ pc' = IF r.thrown THEN "rejected" ELSE "close"
    /\ groupsRun' = Append(groupsRun, <<Groups[group], ToString(idx)>>)
    /\ UNCHANGED <<site, prev, tool, printed, exitCode, doc, browser, contexts, everOpened,
                   group, idx>>

\* a close that leaves the group's context open
PClose_leavesContextOpen ==
    /\ tool = "prober" /\ pc = "close"
    /\ contexts' = contexts
    /\ IF idx < Rounds(group)
       THEN idx' = idx + 1 /\ pc' = "open" /\ UNCHANGED <<group, browser>>
       ELSE IF group < Len(Groups)
       THEN group' = group + 1 /\ idx' = 1 /\ pc' = "open" /\ UNCHANGED browser
       ELSE browser' = "closed" /\ pc' = "summary" /\ UNCHANGED <<group, idx>>
    /\ UNCHANGED <<site, prev, tool, passed, failed, warnings, out, printed, exitCode, doc,
                   groupsRun, everOpened, probe, faults>>

\* await context.close(), then the next round, the next group, or
\* await browser.close()
PClose ==
    /\ tool = "prober" /\ pc = "close"
    /\ contexts' = contexts \ {everOpened}
    /\ IF idx < Rounds(group)
       THEN idx' = idx + 1 /\ pc' = "open" /\ UNCHANGED <<group, browser>>
       ELSE IF group < Len(Groups)
       THEN group' = group + 1 /\ idx' = 1 /\ pc' = "open" /\ UNCHANGED browser
       ELSE browser' = "closed" /\ pc' = "summary" /\ UNCHANGED <<group, idx>>
    /\ UNCHANGED <<site, prev, tool, passed, failed, warnings, out, printed, exitCode, doc,
                   groupsRun, everOpened, probe, faults>>

\* a summary that tolerates one failure
runSummary_offByOne(f, w) ==
    IF f > 1 THEN [verdict |-> "BROWSER QA FAILED", code |-> 1]
    ELSE IF w > 0 THEN [verdict |-> "PASSED WITH WARNINGS", code |-> 0]
    ELSE [verdict |-> "ALL BROWSER CHECKS PASSED", code |-> 0]

runSummary(f, w) ==
    IF f > 0 THEN [verdict |-> "BROWSER QA FAILED", code |-> 1]
    ELSE IF w > 0 THEN [verdict |-> "PASSED WITH WARNINGS", code |-> 0]
    ELSE [verdict |-> "ALL BROWSER CHECKS PASSED", code |-> 0]

PSummary ==
    /\ tool = "prober" /\ pc = "summary"
    /\ LET s == runSummary(failed, warnings)
       IN /\ printed' = printed \o <<"Results", s.verdict>>
          /\ exitCode' = s.code
    /\ pc' = "exited"
    /\ UNCHANGED <<site, prev, tool, passed, failed, warnings, out, doc, groupsRun, proberVars>>

\* a fatal handler that exits with code 0
RunCatch_exitZero ==
    /\ tool = "prober" /\ pc = "rejected"
    /\ printed' = Append(printed, "Fatal error")
    /\ exitCode' = 0
    /\ pc' = "exited"
    /\ UNCHANGED <<site, prev, tool, passed, failed, warnings, out, doc, groupsRun, proberVars>>

\* run().catch(err => { console.error('Fatal error:', ...); process.exit(1) })
RunCatch ==
    /\ tool = "prober" /\ pc = "rejected"
    /\ printed' = Append(printed, "Fatal error")
    /\ exitCode' = 1
    /\ pc' = "exited"
    /\ UNCHANGED <<site, prev, tool, passed, failed, warnings, out, doc, groupsRun, proberVars>>

NextProber ==
    \/ PLaunch
    \/ POpen
    \/ PAct
    \/ PClose
    \/ PSummary
    \/ RunCatch

SpecProber == InitProber /\ [][NextProber]_vars

(***************************************************************************)
(* The site script (script.js) on a loaded page: the FAQ accordion and the  *)
(* testimonials carousel.  Every event handler and timer callback runs to   *)
(* completion, so each is one step.  FAQ items are numbered from 1,         *)
(* testimonials and dots from 0 as in the script.  setInterval hands out a  *)
(* new timer id on every call; `timers` holds the ids that are live.        *)
(***************************************************************************)
MaxFaqItems == 3
MaxTestimonials == 3
MaxTimers == 4

\* the pages: some FAQ items of which at most one is open, and a carousel
\* with one dot per testimonial whose first testimonial and dot are active
Pages ==
    {[NoSite EXCEPT !.faqItems = n, !.open = open, !.total = total, !.dots = total,
                    !.activeTestimonials = {0}, !.activeDots = {0}] :
        n \in 1..MaxFaqItems, open \in SUBSET (1..MaxFaqItems),
        total \in 1..MaxTestimonials}

InitSite ==
    /\ tool = "site"
    /\ pc = "loading"
    /\ doc = NoDoc
    /\ site \in {pg \in Pages : pg.open \subseteq 1..pg.faqItems
                                 /\ Cardinality(pg.open) <= 1}
    /\ InitCommon

\* showTestimonial(index)
showTestimonial(st, index) ==
    [st EXCEPT !.activeTestimonials = {i \in 0..(st.total - 1) : i = index},
               !.activeDots = {i \in 0..(st.dots - 1) : i = index},
               !.currentTestimonial = index]

\* nextTestimonial()
nextTestimonial(st) ==
    showTestimonial(st, (st.currentTestimonial + 1) % st.total)

\* startAutoplay(): autoplayTimer = setInterval(nextTestimonial, interval)
startAutoplay(st) ==
    [st EXCEPT !.timers = @ \cup {st.nextTimer}, !.autoplayTimer = st.nextTimer,
               !.nextTimer = @ + 1]

\* a reset that starts a new interval without clearing the old one
resetAutoplay_noClear(st) == startAutoplay(st)

\* resetAutoplay(): clearInterval(autoplayTimer); startAutoplay()
resetAutoplay(st) ==
    startAutoplay([st EXCEPT !.timers = @ \ {st.autoplayTimer}])

\* a click handler that toggles the item and leaves the others alone
faqClick_othersLeftOpen(st, item) ==
    [st EXCEPT !.open = IF item \in @ THEN @ \ {item} ELSE @ \cup {item}]

\* the click handler of an item's question: close the other items, then
\* toggle this one
faqClick(st, item) ==
    LET others == {o \in st.open : o = item}
    IN [st EXCEPT !.open = IF item \in others THEN others \ {item}
                          ELSE others \cup {item}]

SiteStep(st) ==
    /\ site' = st
    /\ UNCHANGED <<prev, tool, passed, failed, warnings, out, printed, exitCode,
                   doc, groupsRun, proberVars>>

\* DOMContentLoaded: initTestimonialsCarousel() starts the autoplay,
\* initFAQ() installs the click handlers
SLoaded ==
    /\ tool = "site" /\ pc = "loading"
    /\ pc' = "ready"
    /\ SiteStep([startAutoplay(site) EXCEPT !.last = [kind |-> "load", index |-> 0]])

\* a click on the question of a FAQ item
SFaqClick ==
    /\ tool = "site" /\ pc = "ready"
    /\ \E item \in 1..site.faqItems :
         SiteStep([faqClick(site, item) EXCEPT !.last = [kind |-> "faq", index |-> item]])
    /\ UNCHANGED pc

\* a click on a carousel dot
SDotClick ==
    /\ tool = "site" /\ pc = "ready"
    /\ site.nextTimer <= MaxTimers
    /\ \E index \in 0..(site.dots - 1) :
         SiteStep([resetAutoplay(showTestimonial(site, index))
                      EXCEPT !.last = [kind |-> "dot", index |-> index]])
    /\ UNCHANGED pc

\* a live interval timer fires
STick ==
    /\ tool = "site" /\ pc = "ready"
    /\ \E t \in site.timers :
         SiteStep([nextTestimonial(site) EXCEPT !.last = [kind |-> "tick", index |-> t]])
    /\ UNCHANGED pc

NextSite ==
    \/ SLoaded
    \/ SFaqClick
    \/ SDotClick
    \/ STick

SpecSite == InitSite /\ [][NextSite]_vars

Init == InitValidator(SmallDocs) \/ InitProber

Next == NextValidator \/ NextProber

Spec == Init /\ [][Next]_vars

(***************************************************************************)
(* Properties                                                               *)
(***************************************************************************)
Exited == pc = "exited"
SummaryPrinted == \E i \in 1..Len(printed) : printed[i] = "Results"
FatalPrinted == \E i \in 1..Len(printed) : printed[i] = "Fatal error"
Verdict == printed[Len(printed)]
FailureVerdicts == {"VALIDATION FAILED", "BROWSER QA FAILED"}
SuccessVerdicts == {"ALL CHECKS PASSED", "ALL BROWSER CHECKS PASSED"}

\* every round of every group of the browser script, in order
AllRounds ==
    <<<<"load", "1">>, <<"load", "2">>, <<"load", "3">>,
      <<"responsive", "1">>, <<"responsive", "2">>, <<"responsive", "3">>,
      <<"responsive", "4">>, <<"images", "1">>, <<"lang", "1">>, <<"anim", "1">>,
      <<"inter", "1">>, <<"perf", "1">> >>

\* the fail lines of out whose label starts with prefix
FailsWith(prefix) ==
    {i \in 1..Len(out) : out[i].kind = "fail" /\ out[i].label[1] = prefix}

\* C1: in the browser script an error thrown while probing one check group
\* does not stop the run: once the browser was launched, the process exits
\* only after every group ran all its rounds and the summary was printed.
C1_LaterGroupsStillRun ==
    (tool = "prober" /\ Exited /\ browser # "none")
        => (groupsRun = AllRounds /\ SummaryPrinted)

\* C2: every browsing context a check group opened is closed again before
\* the run ends, also when the group's navigation or probing throws.
C2_ContextsClosedAtExit ==
    (tool = "prober" /\ Exited) => contexts = {}

\* C3: in both tools the verdict of the summary is decided by the failed and
\* warnings counters alone (Failure iff failed >= 1, SuccessWithWarnings iff
\* failed = 0 and warnings >= 1, Success iff both are 0), and the exit code
\* after the summary is 1 exactly for Failure; the lines recorded give the
\* same verdict in whatever order they came and however many passes there are.
C3_StatusFromCounters ==
    SummaryPrinted =>
        /\ (Verdict \in FailureVerdicts) <=> failed >= 1
        /\ (Verdict = "PASSED WITH WARNINGS") <=> (failed = 0 /\ warnings >= 1)
        /\ (Verdict \in SuccessVerdicts) <=> (failed = 0 /\ warnings = 0)
        /\ exitCode = IF Verdict \in FailureVerdicts THEN 1 ELSE 0
        /\ (exitCode = 1) <=> (CountKind(out, "fail") >= 1)

C3_Witness ==
    /\ tool = "prober" /\ SummaryPrinted /\ exitCode = 1
    /\ failed >= 1 /\ warnings >= 1 /\ passed >= 1

\* C4: every step changes each counter by exactly the number of lines of its
\* own kind the step printed: a recorded failure adds 1 to failed and nothing
\* to passed or warnings, likewise for pass and warn, and no counter decreases.
C4_RecordChangesOwnCounter ==
    [][ /\ Len(out') >= Len(out)
        /\ SubSeq(out', 1, Len(out)) = out
        /\ LET new == SubSeq(out', Len(out) + 1, Len(out'))
           IN /\ failed' = failed + CountKind(new, "fail")
              /\ passed' = passed + CountKind(new, "pass")
              /\ warnings' = warnings + CountKind(new, "warn")
              /\ failed' >= failed /\ passed' >= passed /\ warnings' >= warnings
      ]_vars

C4_Witness ==
    /\ failed >= 1 /\ passed >= 1 /\ warnings >= 1
    /\ out[Len(out)].kind = "fail"

\* C5: in the validator every recorded warning adds exactly 1 to warnings; a
\* run that recorded a warning and no failure exits with code 0, and a summary
\* reached with no failure recorded is never Failure, however many warnings.
C5_WarningsNeverFail ==
    tool = "validator" =>
        /\ warnings = CountKind(out, "warn")
        /\ (Exited /\ warnings >= 1 /\ CountKind(out, "fail") = 0) => exitCode = 0
        /\ (SummaryPrinted /\ CountKind(out, "fail") = 0)
              => (exitCode = 0 /\ Verdict \notin FailureVerdicts)

C5_Witness ==
    /\ tool = "validator" /\ Exited /\ SummaryPrinted
    /\ warnings = 2 /\ failed = 0 /\ exitCode = 0

\* C6: the aggregate pass "All agent cards have label, title, body, and tags"
\* is recorded only if every card has a non-empty label, title and body and
\* at least 3 tags.
C6_AggregatePassOnlyIfComplete ==
    (tool = "validator"
        /\ Printed(out, "pass", <<"All agent cards have label, title, body, and tags">>) # {})
      => \A i \in 1..Len(doc.cards) :
            /\ doc.cards[i].label # "" /\ doc.cards[i].title # ""
            /\ doc.cards[i].body # "" /\ doc.cards[i].tags >= 3

\* C7: for every readable document the validator runs all eleven check groups
\* in order and reaches the summary, whatever the document holds.
C7_NeverAbortsEarly ==
    (tool = "validator" /\ doc.readable /\ Exited)
      => /\ groupsRun = <<"g1", "g2", "g3", "g4", "g5", "g6", "g7", "g8", "g9",
                          "g10", "g11">>
         /\ SummaryPrinted

\* C8: an error that escapes run() ends the browser script with exit code 1
\* and without the summary: the fatal line and the summary are never both
\* printed, and a run that ends without the summary ended through the fatal
\* handler with code 1.
C8_FatalBypassesSummary ==
    tool = "prober" =>
        /\ ~(FatalPrinted /\ SummaryPrinted)
        /\ FatalPrinted => (Exited /\ exitCode = 1)
        /\ (Exited /\ ~SummaryPrinted) => (FatalPrinted /\ exitCode = 1)
        /\ pc = "rejected" => (~SummaryPrinted /\ exitCode = NoExit)

C8_Witness ==
    /\ tool = "prober" /\ Exited /\ browser = "none"
    /\ FatalPrinted /\ exitCode = 1 /\ out = <<>>

ImagesDone == tool = "validator" /\ \E i \in 1..Len(groupsRun) : groupsRun[i] = "g6"
AltPassPrinted == Printed(out, "pass", <<"All images have alt attributes">>) # {}
LazyPassPrinted ==
    Printed(out, "pass", <<"All lazy-loaded images have width/height">>) # {}
Imgs == 1..Len(doc.imgs)

\* the images the image check looks at: a src attribute that is present,
\* not empty and no data: URI
Checked(i) ==
    /\ doc.imgs[i].src # Undef /\ doc.imgs[i].src # ""
    /\ ~startsWith(doc.imgs[i].src, "data:")

\* C9 as claimed, over images that have a source: one "Missing alt" failure
\* per image of the document that has no alt attribute, none for an empty
\* alt, and the aggregate pass only when no image of the document lacks alt.
C9_EveryImageLackingAltFails ==
    (ImagesDone /\ \A i \in Imgs : doc.imgs[i].src \notin {Undef, ""}) =>
        /\ Cardinality(FailsWith("Missing alt: "))
             = Cardinality({i \in Imgs : doc.imgs[i].alt = Undef})
        /\ AltPassPrinted => \A i \in Imgs : doc.imgs[i].alt # Undef

\* What the image group does guarantee for alt: one "Missing alt" failure
\* per image that has a non-empty, non-data: src and no alt attribute, none for an empty alt, and the
\* aggregate pass exactly when no such image lacks alt.
C9_CheckedImagesLackingAltFail ==
    ImagesDone =>
        /\ Cardinality(FailsWith("Missing alt: "))
             = Cardinality({i \in Imgs : Checked(i) /\ doc.imgs[i].alt = Undef})
        /\ AltPassPrinted <=> \A i \in Imgs : Checked(i) => doc.imgs[i].alt # Undef

C9_Witness ==
    /\ ImagesDone
    /\ \E i, j \in Imgs :
          /\ Checked(i) /\ doc.imgs[i].alt = ""
          /\ Checked(j) /\ doc.imgs[j].alt = Undef
    /\ Cardinality(FailsWith("Missing alt: ")) = 1
    /\ ~AltPassPrinted

\* C10 as claimed, over images that have a source: one "Lazy image without
\* dimensions" failure per image with loading="lazy", a source not ending in
\* .svg and no width or no height attribute; none for an image whose source
\* ends in .svg, or with both attributes declared, or not lazy.
C10_LazyWithoutDimensionsFails ==
    (ImagesDone /\ \A i \in Imgs : doc.imgs[i].src \notin {Undef, ""})
      => Cardinality(FailsWith("Lazy image without dimensions: "))
           = Cardinality({i \in Imgs :
                 /\ doc.imgs[i].loading = "lazy"
                 /\ ~endsWithSvg(doc.imgs[i].src)
                 /\ (doc.imgs[i].width = Undef \/ doc.imgs[i].height = Undef)})

\* What the image group does guarantee for dimensions: the failure is
\* recorded for exactly the images with a non-empty, non-data: source not ending in .svg, loading="lazy", and a width
\* or height that is absent or empty; the aggregate pass exactly when there
\* is none.
C10_CheckedLazyWithoutDimensionsFails ==
    ImagesDone =>
        LET bad == {i \in Imgs :
                      /\ Checked(i)
                      /\ doc.imgs[i].loading = "lazy"
                      /\ ~endsWithSvg(doc.imgs[i].src)
                      /\ (doc.imgs[i].width \in {Undef, ""}
                          \/ doc.imgs[i].height \in {Undef, ""})}
        IN /\ Cardinality(FailsWith("Lazy image without dimensions: "))
                = Cardinality(bad)
           /\ LazyPassPrinted <=> bad = {}

C10_Witness ==
    /\ ImagesDone
    /\ \E i, j \in Imgs :
          /\ doc.imgs[i].src = "img/b.svg" /\ doc.imgs[i].loading = "lazy"
          /\ doc.imgs[i].width = Undef
          /\ doc.imgs[j].src = "img/a.png" /\ doc.imgs[j].loading = "lazy"
          /\ doc.imgs[j].width = Undef
    /\ Cardinality(FailsWith("Lazy image without dimensions: ")) = 1

\* group `at` of the validator was entered
Ran(at) == \E i \in 1..Len(groupsRun) : groupsRun[i] = at

\* an href with a scheme of its own
AbsoluteHrefs == {HttpUrl, "mailto:oi@aizen.com", "tel:+5511999999999"}

\* the positions of doc.anchors that hold a relative href
RelativeLinks ==
    {i \in 1..Len(doc.anchors) :
        ~startsWith(doc.anchors[i], "#") /\ doc.anchors[i] \notin AbsoluteHrefs}

\* neither the literal path nor the path with the index document exists
BrokenLink(i) ==
    /\ doc.anchors[i] \notin doc.disk
    /\ withIndex(doc.anchors[i]) \notin doc.disk

\* C11: once the link group ran, every relative anchor href (not starting
\* with '#', not absolute, not mailto) has a 'Broken relative link' failure
\* iff neither its literal path nor the path with the index document
\* appended exists; there is one failure per broken link, and the aggregate
\* pass is recorded iff no relative link is broken.
C11_BrokenRelativeLinkIff ==
    (tool = "validator" /\ Ran("g5")) =>
        LET broken == {i \in RelativeLinks : BrokenLink(i)}
        IN /\ \A i \in RelativeLinks :
                BrokenLink(i) <=>
                    Printed(out, "fail",
                            <<"Broken relative link: ", doc.anchors[i]>>) # {}
           /\ Cardinality(FailsWith("Broken relative link: ")) = Cardinality(broken)
           /\ (broken = {}) <=>
                Printed(out, "pass",
                        <<"All relative links point to existing files">>) # {}

\* the pass lines of out whose label starts with prefix
PassesWith(prefix) ==
    {i \in 1..Len(out) : out[i].kind = "pass" /\ out[i].label[1] = prefix}

\* every string referenced by an image source, a link href or a url(...)
Referenced ==
    {doc.imgs[i].src : i \in 1..Len(doc.imgs)}
        \cup {doc.linkHrefs[i] : i \in 1..Len(doc.linkHrefs)}
        \cup {doc.cssUrls[i] : i \in 1..Len(doc.cssUrls)}

\* the local references: not remote, not inline, not a bare fragment
LocalRefs ==
    {a \in Referenced : /\ truthy(a) /\ a # HttpUrl /\ a # DataUrl /\ a # "#"}

\* C12: once the asset group ran, each local reference (from image sources,
\* link hrefs and url(...) occurrences) that is absent on disk has exactly
\* one 'Missing asset' failure naming it, however often it is referenced,
\* each one present has none, and exactly one aggregate pass is recorded
\* iff no local reference is missing.
C12_OneFailurePerMissingAsset ==
    (tool = "validator" /\ Ran("g4")) =>
        LET missing == LocalRefs \ doc.disk
        IN /\ \A a \in LocalRefs :
                Cardinality(Printed(out, "fail", <<"Missing asset: ", a>>))
                    = IF a \in missing THEN 1 ELSE 0
           /\ Cardinality(FailsWith("Missing asset: ")) = Cardinality(missing)
           /\ Cardinality(PassesWith("All local assets exist on disk"))
                    = IF missing = {} THEN 1 ELSE 0

\* the meta fields whose value violates the field's rule
ViolatedMeta ==
    {MetaSchema[i].field : i \in {j \in 1..Len(MetaSchema) :
                                    ~Holds(MetaSchema[j], doc.meta[MetaSchema[j].field])}}

\* the recorded outcomes that are not outcomes of the meta schema
IsMetaLine(l) == l.label[1] \in {"Meta: ", "All meta tags valid"}
NotMeta(lines) == SelectSeq(lines, LAMBDA l : ~IsMetaLine(l))

\* the document with its lang attribute corrected
LangCorrected == [doc EXCEPT !.meta.lang = "pt-BR"]

\* C13: once the meta group ran, each meta field violating its rule has
\* exactly one failure naming it, a satisfied field has none, and one
\* aggregate pass is recorded iff no field is violated; a document whose
\* only defect is lang="en" has exactly one meta failure, naming lang, and
\* at the end of the run every outcome outside the meta schema is the one
\* the run on the document with the lang corrected records.
C13_OneFailurePerViolatedMetaField ==
    (tool = "validator" /\ Ran("g1")) =>
        /\ \A f \in FieldsOf(MetaSchema) :
              Cardinality(Printed(out, "fail", <<"Meta: ", f>>))
                  = IF f \in ViolatedMeta THEN 1 ELSE 0
        /\ Cardinality(FailsWith("Meta: ")) = Cardinality(ViolatedMeta)
        /\ Cardinality(Printed(out, "pass", <<"All meta tags valid">>))
              = IF ViolatedMeta = {} THEN 1 ELSE 0
        /\ (ViolatedMeta = {"lang"} /\ doc.meta.lang = "en") =>
              /\ FailsWith("Meta: ") = Printed(out, "fail", <<"Meta: ", "lang">>)
              /\ Cardinality(FailsWith("Meta: ")) = 1
        /\ Exited => NotMeta(out) = NotMeta(validate(LangCorrected).out)

\* a finished run on a document whose only meta defect is lang="en"
C13_Witness ==
    /\ tool = "validator" /\ Exited /\ SummaryPrinted
    /\ ViolatedMeta = {"lang"} /\ doc.meta.lang = "en"
    /\ Printed(out, "fail", <<"Meta: ", "lang">>) # {}
    /\ Len(NotMeta(out)) > 10

\* the lines the step appended to out
NewLines == SubSeq(out', Len(out) + 1, Len(out'))

\* the outcomes of one route, given what its navigation answered
RouteOutcomes(pg, p) ==
    IF p.throwAt = 1 THEN <<Line("fail", <<pg, "load">>)>>
    ELSE <<IF p.status = "200" THEN Line("pass", <<pg, "loads">>)
           ELSE Line("fail", <<pg, "load">>)>>
         \o (IF p.errors = 0 THEN <<Line("pass", <<pg, "no JS errors">>)>>
             ELSE [i \in 1..p.errors |-> Line("fail", <<pg, "JS error", ToString(i)>>)])

\* the step that navigates to a route of the load group
LoadStep == tool = "prober" /\ pc = "act" /\ Groups[group] = "load" /\ out' # out

\* C14: a route whose navigation answers a non-200 status with no script
\* error adds exactly one failure, for that route; what a route adds to
\* the outcomes is decided by that route's navigation alone, whatever the
\* earlier routes recorded; and a failing or throwing route never stops
\* the loop: once the engine was launched the run checks all three routes.
C14_RoutesIndependent ==
    /\ [][LoadStep =>
            /\ NewLines = RouteOutcomes(PAGES[idx], probe')
            /\ (probe'.throwAt = 0 /\ probe'.status # "200" /\ probe'.errors = 0) =>
                  /\ failed' = failed + 1
                  /\ CountKind(NewLines, "fail") = 1
                  /\ Printed(NewLines, "fail", <<PAGES[idx], "load">>) # {}
            /\ pc' = "close"]_vars
    /\ []((tool = "prober" /\ Exited /\ browser # "none") =>
            /\ Len(groupsRun) >= Len(PAGES)
            /\ \A i \in 1..Len(PAGES) : groupsRun[i] = <<"load", ToString(i)>>)

\* the third route answers 404 without script errors after the navigation
\* of an earlier route threw
C14_Witness ==
    /\ tool = "prober" /\ pc = "close" /\ Groups[group] = "load" /\ idx = 3
    /\ probe.throwAt = 0 /\ probe.status = "404" /\ probe.errors = 0
    /\ failed = 2
    /\ Printed(out, "fail", <<PAGES[3], "load">>) # {}
    /\ Printed(out, "pass", <<PAGES[3], "no JS errors">>) # {}

FaqLabel == <<"FAQ accordion may not be working (check manually)">>
ScrollLabel == <<"Smooth scroll may not be working (check manually)">>

\* the lines of `lines` that report the accordion or the smooth scroll
SoftLines(lines, kind) ==
    Printed(lines, kind, FaqLabel) \cup Printed(lines, kind, ScrollLabel)

\* the step that probes the interactive elements
InterStep == tool = "prober" /\ pc = "act" /\ Groups[group] = "inter" /\ probe' # probe

\* C15: an accordion that does not open and an anchor click that does not
\* bring its target near the top of the viewport are each recorded as one
\* warning and never as a failure, and a run whose only defects are these
\* ends with the summary and exit code 0.
C15_SoftChecksOnlyWarn ==
    /\ [][InterStep =>
            /\ (Reached(probe', 2) /\ ~probe'.faqWorks) =>
                  Cardinality(Printed(NewLines, "warn", FaqLabel)) = 1
            /\ (Reached(probe', 5) /\ ~probe'.scrollWorks) =>
                  Cardinality(Printed(NewLines, "warn", ScrollLabel)) = 1
            /\ SoftLines(NewLines, "fail") = {}
            /\ (probe'.throwAt = 0 /\ probe'.tabsWork /\ probe'.formWorks) =>
                  failed' = failed /\ pc' = "close"]_vars
    /\ [](tool = "prober" => SoftLines(out, "fail") = {})
    /\ []((tool = "prober" /\ Exited /\ browser # "none" /\ faults >= 1
            /\ faults = Cardinality(SoftLines(out, "warn"))) =>
                (SummaryPrinted /\ exitCode = 0 /\ failed = 0))

\* a finished run in which the accordion did not open and the scroll did
\* not reach its target, and nothing else was wrong
C15_Witness ==
    /\ tool = "prober" /\ Exited /\ faults = 2
    /\ Printed(out, "warn", FaqLabel) # {} /\ Printed(out, "warn", ScrollLabel) # {}
    /\ exitCode = 0 /\ warnings = 2

\* C16: the check groups of the browser script run one after another in
\* the order load, responsive layout, images, language switching,
\* animation, interactive elements, performance; at every moment at most
\* one browsing context is open; a context is opened only when the previous
\* one was closed and the engine is open, and the engine is closed only
\* when no context is open.
C16_GroupsInOrderOneContext ==
    /\ [](tool = "prober" =>
            /\ Len(groupsRun) <= Len(AllRounds)
            /\ groupsRun = SubSeq(AllRounds, 1, Len(groupsRun))
            /\ Cardinality(contexts) <= 1
            /\ (contexts # {} => browser = "open"))
    /\ [][(everOpened' # everOpened) =>
            /\ contexts = {} /\ browser = "open" /\ browser' = "open"
            /\ contexts' = {everOpened'}]_vars
    /\ [][(browser = "open" /\ browser' = "closed") => contexts' = {}]_vars

\* the performance group probing in the twelfth context, the only one open
C16_Witness ==
    /\ tool = "prober" /\ pc = "close" /\ Groups[group] = "perf"
    /\ groupsRun = AllRounds
    /\ everOpened = Len(AllRounds) /\ contexts = {everOpened}
    /\ browser = "open"

\* what the current run ended with
ThisRun == [ran |-> TRUE, passed |-> passed, failed |-> failed,
            warnings |-> warnings, out |-> out, printed |-> printed,
            exitCode |-> exitCode]

StressPassLabel == <<"Rapid language switching (10 cycles) - no errors">>

\* the language group has probed and reported; probe is what its page did
LangDone == tool = "prober" /\ pc = "close" /\ Groups[group] = "lang"

\* C18: the pass of the stress test is recorded only if no in-page error
\* was raised during the ten toggle cycles, whether thrown by switchLang
\* itself or later from a timer or animation callback it scheduled, and
\* any such error is recorded as a 'Stress test error' failure.
C18_StressPassOnlyIfNoError ==
    LangDone =>
        /\ Printed(out, "pass", StressPassLabel) # {} =>
              (~probe.syncError /\ ~probe.asyncError)
        /\ (probe.syncError \/ probe.asyncError) =>
              FailsWith("Stress test error") # {}

\* C19: starting from a page with at most one FAQ item open, at most one
\* item is open after any sequence of clicks on FAQ questions; a click on a
\* closed item leaves exactly that item open and a click on the open item
\* leaves no item open.
C19_AtMostOneFaqOpen ==
    /\ [](tool = "site" => Cardinality(site.open) <= 1)
    /\ [][(tool = "site" /\ site'.last.kind = "faq" /\ site'.open # site.open) =>
            LET item == site'.last.index
            IN /\ item \notin site.open => site'.open = {item}
               /\ item \in site.open => site'.open = {}]_vars
    /\ [][(tool = "site" /\ pc = "ready" /\ site'.open = site.open) =>
            site'.last.kind # "faq"]_vars

\* the second of three items was clicked and is now the one open
C19_Witness ==
    /\ tool = "site" /\ site.last = [kind |-> "faq", index |-> 2]
    /\ site.open = {2} /\ site.faqItems = 3

=============================================================================
